---- MODULE Spec2Model ----
(***************************************************************************)
(* Model of turing.enumerable.js: the traversal primitive `each` with its  *)
(* Break protocol, the transform/query operations built on it (with their  *)
(* native fast paths), and the Chainer wrapper.                            *)
(*                                                                         *)
(* JavaScript values are records [t, v]; containers carry their elements.  *)
(* Functions are records with t = "function".  Every operation is an       *)
(* operator returning a completion record                                  *)
(*     [k |-> "ret" | "throw", val |-> value, log |-> callback calls]      *)
(* computed the way the source computes it.  Not modelled: flatten,        *)
(* invoke, the init hook, string and sparse-array inputs.                  *)
(***************************************************************************)
EXTENDS Integers, Sequences, FiniteSets, TLC

(* ------------------------------ bounds --------------------------------- *)
MaxLen == 2
MaxChain == 2

(* ------------------------------ values --------------------------------- *)
Val(t, v) == [t |-> t, v |-> v]
Undef == Val("undef", 0)
Null == Val("null", 0)
Bool(b) == Val("bool", IF b THEN 1 ELSE 0)
Num(n) == Val("num", n)
NaN == Val("nan", 0)
Str(i) == Val("str", i)
Obj(i) == Val("obj", i)

\* string table: the strings the model uses, by index
StrEmpty == Str(0)
StrObjectObject == Str(1)   \* "[object Object]"
StrA == Str(2)              \* "a"
StrLength == Str(3)         \* "length"
Key(i) == Str(10 + i)       \* property name of the i-th own key of a mapping

\* global.enumerable.Break = {} : one plain object, compared by identity
Break == Obj(0)
Other == Obj(1)             \* some other plain object
TypeError == Obj(2)         \* the host's TypeError completion
ChainerRef == Obj(3)        \* the Chainer instance of the run

Container(t, id, elems, inh) == [t |-> t, v |-> id, elems |-> elems, inh |-> inh]
Arr(id, elems) == Container("array", id, elems, 0)
ArrLike(id, elems) == Container("arraylike", id, elems, 0)
Mapping(id, elems, inh) == Container("mapping", id, elems, inh)
Fresh(elems) == Arr(0, elems)            \* an array literal created by the library
Pair(a, b) == Fresh(<<a, b>>)

IsContainer(x) == x.t \in {"array", "arraylike", "mapping"}
Callable(x) == x.t = "function"

\* ToBoolean
Truthy(x) ==
  CASE x.t \in {"undef", "null", "nan"} -> FALSE
    [] x.t = "bool" -> x.v = 1
    [] x.t = "num" -> x.v # 0
    [] x.t = "str" -> x.v # 0
    [] OTHER -> TRUE

\* ToPrimitive of an object: a plain object stringifies to "[object Object]"
ToPrimitive(x) == IF x.t = "obj" THEN StrObjectObject ELSE x

\* ToNumber of a primitive
ToNumber(x) ==
  CASE x.t = "num" -> x
    [] x.t = "bool" -> Num(x.v)
    [] x.t = "null" -> Num(0)
    [] x = StrEmpty -> Num(0)
    [] OTHER -> NaN

\* strict equality (===): same type and same value / same reference
StrictEq(a, b) == a.t # "nan" /\ a = b

\* abstract equality (==) on scalars and object references
LooseEq(a, b) ==
  LET prim(x) == x.t \in {"num", "str", "bool", "nan"}
      nullish(x) == x.t \in {"undef", "null"}
      pa == ToPrimitive(a)
      pb == ToPrimitive(b)
  IN CASE a.t = b.t -> StrictEq(a, b)
       [] nullish(a) \/ nullish(b) -> nullish(a) /\ nullish(b)
       [] ~(prim(pa) /\ prim(pb)) -> FALSE
       [] pa.t = pb.t -> StrictEq(pa, pb)
       [] OTHER -> StrictEq(ToNumber(pa), ToNumber(pb))

(* --------------------------- completions ------------------------------- *)
Ret(v, log) == [k |-> "ret", val |-> v, log |-> log]
Throw(v, log) == [k |-> "throw", val |-> v, log |-> log]
\* completion of one callback invocation, with the closure's captured variable
Step(k, v, acc, log) == [k |-> k, val |-> v, acc |-> acc, log |-> log]

\* global.isArray (turing.core): host arrays only
isArray(x) == x.t = "array"
\* global.isNumber(enumerable.length): arrays and array-likes have a numeric length
HasLength(x) == x.t \in {"array", "arraylike"}

(* ------------------------- functions as data --------------------------- *)
\* A caller-supplied function: returns/throws `out` when its first argument
\* is `trig`, and `dflt` otherwise.
UserFn(trig, out, dflt) ==
  [t |-> "function", kind |-> "user", trig |-> trig, out |-> out, dflt |-> dflt]
\* A caller-supplied function whose body calls a short-circuiting operation
\* on the list Inner, looking for its own first argument.
NestedFn(op) == [t |-> "function", kind |-> "nested", nop |-> op]
\* A caller-supplied reducer (memo, value, index, list): throws `out` at value
\* `trig` when `out` is a throw, otherwise combines memo, value and index.
ReducerFn(trig, out) ==
  [t |-> "function", kind |-> "reducer", trig |-> trig, out |-> out]
Outcome(k, v) == [k |-> k, val |-> v]

\* what a caller-supplied function of kind "user" does with first argument x
UserOutcome(f, x) == IF x = f.trig THEN f.out ELSE f.dflt

Arg(args, i) == IF i <= Len(args) THEN args[i] ELSE Undef
NumOf(x) == IF x.t = "num" THEN x.v ELSE 1
Combine(memo, value, index) == Num((2 * NumOf(memo) + NumOf(value) + NumOf(index)) % 8)

\* the list the nested caller functions search
Inner == ArrLike(9, <<Num(1), Num(2)>>)

\* one logged invocation of a caller-supplied function
Invocation(recv, args, inner) == [recv |-> recv, args |-> args, inner |-> inner]

\* value[key] as pluck's callback reads it (line 245)
GetProp(value, key) ==
  IF value.t \in {"undef", "null"} THEN Outcome("throw", TypeError)
  ELSE IF IsContainer(value) /\ value.t # "mapping" /\ key.t = "num"
            /\ key.v >= 0 /\ key.v < Len(value.elems)
       THEN Outcome("ret", value.elems[key.v + 1])
  ELSE IF IsContainer(value) /\ value.t # "mapping" /\ key = StrLength
       THEN Outcome("ret", Num(Len(value.elems)))
  ELSE Outcome("ret", Undef)

(* --------------------------- the traversal ----------------------------- *)
StrResults == Str(4)        \* "results", the Chainer's own property

\* the (value, key) entries a traversal of e visits, in order
IndexedItems(e) ==
  [i \in 1..Len(e.elems) |-> [value |-> e.elems[i], index |-> Num(i - 1), own |-> TRUE]]
\* for (key in enumerable): own enumerable keys, then the inherited ones
ForInItems(e) ==
  IF e.t = "mapping"
  THEN [i \in 1..Len(e.elems) |-> [value |-> e.elems[i], index |-> Key(i), own |-> TRUE]]
       \o [j \in 1..e.inh |-> [value |-> Other, index |-> Key(100 + j), own |-> FALSE]]
  ELSE IF e = ChainerRef
  THEN <<[value |-> ChainerRef, index |-> StrResults, own |-> TRUE]>>
  ELSE <<>>
IsOwn(item) == item.own

\* the bodies of the closures the operations pass to each, after the
\* caller's callback has returned r; acc is the closure's captured variable
\* map (line 71): results.push(callback.call(context, value, index, list))
MapPush(acc, r) == Step("ret", Undef, Fresh(Append(acc.elems, r.val)), r.log)
\* filter (lines 97-103)
FilterPush(pushIndex, acc, r, args) ==
  IF ~Truthy(r.val) THEN Step("ret", Undef, acc, r.log)
  ELSE IF pushIndex
       THEN Step("ret", Undef, Fresh(Append(acc.elems, Pair(Arg(args, 2), Arg(args, 1)))), r.log)
       ELSE Step("ret", Undef, Fresh(Append(acc.elems, Arg(args, 1))), r.log)
NegatedDropped(acc, r) == Step("ret", r.val, acc, r.log)
\* reject (line 125): return !callback.apply(context, arguments)
Negated(acc, r) == Step("ret", Bool(~Truthy(r.val)), acc, r.log)
DetectStepNoBreak(acc, r, args) ==
  IF Truthy(r.val) THEN Step("ret", Undef, Arg(args, 1), r.log)
  ELSE Step("ret", Undef, acc, r.log)
\* detect (lines 147-150): result = value; throw Break
DetectStep(acc, r, args) ==
  IF Truthy(r.val) THEN Step("throw", Break, Arg(args, 1), r.log)
  ELSE Step("ret", Undef, acc, r.log)
ReduceArgsSwapped(memo, args) == <<Arg(args, 1), memo, Arg(args, 2), Arg(args, 3)>>
\* reduce (line 175): callback.call(context, memo, value, index, list)
ReduceArgs(memo, args) == <<memo>> \o args
\* some (lines 269-271): if (result = callback.call(...)) throw Break
SomeStep(r) ==
  IF Truthy(r.val) THEN Step("throw", Break, r.val, r.log)
  ELSE Step("ret", Undef, r.val, r.log)
\* all (lines 296-298): if (!(result = result && callback.call(...))) throw Break
AllStep(r) ==
  IF ~Truthy(r.val) THEN Step("throw", Break, r.val, r.log)
  ELSE Step("ret", Undef, r.val, r.log)
\* include (lines 319-321): if (found = value === target) throw Break
\* pluck (line 245): return value[key]
PluckStep(o, acc) == Step(o.k, o.val, acc, <<>>)
IncludeStep(target, args) ==
  IF StrictEq(Arg(args, 1), target) THEN Step("throw", Break, Bool(TRUE), <<>>)
  ELSE Step("ret", Undef, Bool(FALSE), <<>>)

RECURSIVE Call(_, _, _, _, _)
RECURSIVE Loop(_, _, _, _, _, _, _, _)
RECURSIVE LoopNext(_, _, _, _, _, _, _, _)
RECURSIVE Each(_, _, _, _)
RECURSIVE detect(_, _, _)
RECURSIVE some(_, _, _)
RECURSIVE all(_, _, _)
RECURSIVE include(_, _, _)

\* the body of a caller function of kind "nested"
NestedOp(host, op, value) ==
  CASE op = "detect" -> detect(host, Inner, UserFn(value, Outcome("ret", Bool(TRUE)), Outcome("ret", Bool(FALSE))))
    [] op = "some" -> some(host, Inner, UserFn(value, Outcome("ret", Bool(TRUE)), Outcome("ret", Bool(FALSE))))
    [] op = "all" -> all(host, Inner, UserFn(value, Outcome("ret", Bool(FALSE)), Outcome("ret", Bool(TRUE))))
    [] op = "include" -> include(host, Inner, value)

\* completion of a caller-supplied function, logged as one invocation
UserStep(o, recv, args, acc, inner) ==
  Step(o.k, o.val, acc, <<Invocation(recv, args, inner)>>)
NestedStep(r, recv, args, acc) == UserStep(r, recv, args, acc, Len(r.log))

\* a caller-supplied function called as f.call(recv, args...)
UserCall(host, f, recv, args, acc) ==
  CASE f.kind = "user" -> UserStep(UserOutcome(f, Arg(args, 1)), recv, args, acc, 0)
    [] f.kind = "reducer" ->
         IF Arg(args, 2) = f.trig /\ f.out.k = "throw"
         THEN UserStep(f.out, recv, args, acc, 0)
         ELSE UserStep(Outcome("ret", Combine(Arg(args, 1), Arg(args, 2), Arg(args, 3))),
                       recv, args, acc, 0)
    [] f.kind = "nested" -> NestedStep(NestedOp(host, f.nop, Arg(args, 1)), recv, args, acc)

\* a library function that calls no callback
LeafCall(f, args, acc) ==
  CASE f.kind = "identity" -> Step("ret", Arg(args, 1), acc, <<>>)
    [] f.kind = "includecb" -> IncludeStep(f.target, args)
    [] f.kind = "pluckcb" -> PluckStep(GetProp(Arg(args, 1), f.key), acc)

\* what a library closure does once the callback it wraps has completed as r
AfterCallback(f, acc, args, r) ==
  IF r.k = "throw" THEN r
  ELSE CASE f.kind = "bound" -> r
         [] f.kind = "mapcb" -> MapPush(acc, r)
         [] f.kind = "filtercb" -> FilterPush(f.pushIndex, acc, r, args)
         [] f.kind = "negate" -> Negated(acc, r)
         [] f.kind = "detectcb" -> DetectStep(acc, r, args)
         [] f.kind = "reducecb" -> Step("ret", Undef, r.val, r.log)
         [] f.kind = "somecb" -> SomeStep(r)
         [] f.kind = "allcb" -> AllStep(r)

\* f.call(recv, args...) with the closure variable acc; the closures the
\* library passes to each are the kinds ending in "cb"
Call(host, f, recv, args, acc) ==
  IF ~Callable(f) THEN Step("throw", TypeError, acc, <<>>)
  ELSE IF f.kind \in {"user", "reducer", "nested"} THEN UserCall(host, f, recv, args, acc)
  ELSE IF f.kind \in {"identity", "includecb", "pluckcb"} THEN LeafCall(f, args, acc)
  ELSE IF f.kind = "allcb" /\ ~Truthy(acc) THEN Step("throw", Break, acc, <<>>)
  ELSE AfterCallback(f, acc, args,
         Call(host, f.callback, "context",
              IF f.kind = "reducecb" THEN ReduceArgs(acc, args) ELSE args, acc))

\* one pass over items[i..], calling f(value, index, list) on each
Loop(host, list, items, i, f, recv, acc, log) ==
  IF i > Len(items) THEN Step("ret", Undef, acc, log)
  ELSE LoopNext(host, list, items, i, f, recv, log,
                Call(host, f, recv, <<items[i].value, items[i].index, list>>, acc))
\* the loop after the i-th call completed as s
LoopNext(host, list, items, i, f, recv, log, s) ==
  IF s.k = "throw" THEN Step("throw", s.val, s.acc, log \o s.log)
  ELSE Loop(host, list, items, i + 1, f, recv, s.acc, log \o s.log)

\* Array.prototype.forEach.call(list, f, context)
NativeForEach(host, list, f, acc) ==
  IF ~Callable(f) THEN Step("throw", TypeError, acc, <<>>)
  ELSE Loop(host, list, IndexedItems(list), 1, f, "context", acc, <<>>)

\* the try block of each (lines 39-47)
EachTry(host, enumerable, callback, acc) ==
  IF enumerable.t \in {"undef", "null"} THEN Step("throw", TypeError, acc, <<>>)
  ELSE IF host /\ enumerable.t = "array" THEN NativeForEach(host, enumerable, callback, acc)
  ELSE IF HasLength(enumerable)
       THEN Loop(host, enumerable, IndexedItems(enumerable), 1, callback, "collection", acc, <<>>)
  ELSE Loop(host, enumerable, SelectSeq(ForInItems(enumerable), IsOwn), 1, callback, "context", acc, <<>>)

\* the catch clause of each (line 49): e != Break rethrows
Rethrown(e) == ~LooseEq(e, Break)

EachReturnMissing(enumerable) == Undef
\* line 52: return enumerable
EachReturn(enumerable) == enumerable

\* lines 48-52: the try block completed as r
EachCatch(enumerable, r) ==
  IF r.k = "throw" /\ Rethrown(r.val) THEN r
  ELSE Step("ret", EachReturn(enumerable), r.acc, r.log)

\* each (lines 37-53); acc is the variable the callback closes over
Each(host, enumerable, callback, acc) ==
  EachCatch(enumerable, EachTry(host, enumerable, callback, acc))

(* ------------------------ host array methods --------------------------- *)
RECURSIVE NativeScan(_, _, _, _, _, _, _)
RECURSIVE NativeScanNext(_, _, _, _, _, _, _, _)
Scanned(k, v, vals, log) == [k |-> k, val |-> v, vals |-> vals, log |-> log]
\* the common loop of Array.prototype.map/filter/some/every: calls
\* f.call(context, list[i], i, list) in index order, collecting the returned
\* values, and stops after the first value whose truthiness is stopOn
NativeScan(host, list, f, i, stopOn, vals, log) ==
  IF i > Len(list.elems) THEN Scanned("ret", Undef, vals, log)
  ELSE NativeScanNext(host, list, f, i, stopOn, vals, log,
                      Call(host, f, "context", <<list.elems[i], Num(i - 1), list>>, Undef))
NativeScanNext(host, list, f, i, stopOn, vals, log, s) ==
  IF s.k = "throw" THEN Scanned("throw", s.val, vals, log \o s.log)
  ELSE IF stopOn # "never" /\ Truthy(s.val) = (stopOn = "truthy")
       THEN Scanned("ret", Undef, Append(vals, s.val), log \o s.log)
  ELSE NativeScan(host, list, f, i + 1, stopOn, Append(vals, s.val), log \o s.log)

Kept(elems, vals) ==
  LET idx == SelectSeq([i \in 1..Len(elems) |-> i], LAMBDA i : Truthy(vals[i]))
  IN [j \in 1..Len(idx) |-> elems[idx[j]]]

\* the value a host method computes from the callback results r.vals
NativeValue(method, list, r) ==
  IF r.k = "throw" THEN Throw(r.val, r.log)
  ELSE CASE method = "map" -> Ret(Fresh(r.vals), r.log)
         [] method = "filter" -> Ret(Fresh(Kept(list.elems, r.vals)), r.log)
         [] method = "some" -> Ret(Bool(\E i \in 1..Len(r.vals) : Truthy(r.vals[i])), r.log)
         [] method = "every" -> Ret(Bool(\A i \in 1..Len(r.vals) : Truthy(r.vals[i])), r.log)

\* Array.prototype[method].call(list, f, context) for map/filter/some/every
NativeMethod(method, host, list, f) ==
  IF ~Callable(f) THEN Throw(TypeError, <<>>)
  ELSE NativeValue(method, list,
         NativeScan(host, list, f, 1,
                    CASE method = "some" -> "truthy" [] method = "every" -> "falsy" [] OTHER -> "never",
                    <<>>, <<>>))

NativeMap(host, list, f) == NativeMethod("map", host, list, f)
NativeFilter(host, list, f) == NativeMethod("filter", host, list, f)
NativeSome(host, list, f) == NativeMethod("some", host, list, f)
NativeEvery(host, list, f) == NativeMethod("every", host, list, f)

RECURSIVE NativeFold(_, _, _, _, _, _)
RECURSIVE NativeFoldNext(_, _, _, _, _, _)
NativeFold(host, list, f, i, memo, log) ==
  IF i > Len(list.elems) THEN Ret(memo, log)
  ELSE NativeFoldNext(host, list, f, i, log,
                      Call(host, f, "context", <<memo, list.elems[i], Num(i - 1), list>>, Undef))
NativeFoldNext(host, list, f, i, log, s) ==
  IF s.k = "throw" THEN Throw(s.val, log \o s.log)
  ELSE NativeFold(host, list, f, i + 1, s.val, log \o s.log)

\* Array.prototype.reduce.call(list, f, memo)
NativeReduce(host, list, f, memo) ==
  IF ~Callable(f) THEN Throw(TypeError, <<>>) ELSE NativeFold(host, list, f, 1, memo, <<>>)

\* Array.prototype.indexOf.call(list, target) != -1
NativeIndexOf(list, target) ==
  IF \E i \in 1..Len(list.elems) : StrictEq(list.elems[i], target)
  THEN (CHOOSE i \in 1..Len(list.elems) :
          /\ StrictEq(list.elems[i], target)
          /\ \A j \in 1..(i - 1) : ~StrictEq(list.elems[j], target)) - 1
  ELSE -1

(* --------------------------- the operations ---------------------------- *)
\* `Array.prototype.m && enumerable.m === Array.prototype.m`: reading a
\* property of null or undefined throws; only host arrays carry the method
NativePath(host, enumerable) == host /\ enumerable.t = "array"
NoProps(enumerable) == enumerable.t \in {"undef", "null"}

Closure(kind, callback) == [t |-> "function", kind |-> kind, callback |-> callback]
identity == [t |-> "function", kind |-> "identity"]

\* completion of an operation that returns the closure variable after each
Finish(r) == IF r.k = "throw" THEN Throw(r.val, r.log) ELSE Ret(r.acc, r.log)

\* each as a public operation
EachResult(r) == IF r.k = "throw" THEN Throw(r.val, r.log) ELSE Ret(r.val, r.log)
each(host, enumerable, callback) == EachResult(Each(host, enumerable, callback, Undef))

map(host, enumerable, callback) ==
  IF NativePath(host, enumerable) THEN NativeMap(host, enumerable, callback)
  ELSE Finish(Each(host, enumerable, Closure("mapcb", callback), Fresh(<<>>)))

filter(host, enumerable, callback) ==
  IF NativePath(host, enumerable) THEN NativeFilter(host, enumerable, callback)
  ELSE Finish(Each(host, enumerable,
                   [t |-> "function", kind |-> "filtercb", callback |-> callback,
                    pushIndex |-> ~isArray(enumerable)],
                   Fresh(<<>>)))

\* reject called as a method of the enumerable module (this.filter is filter)
reject(host, enumerable, callback) ==
  filter(host, enumerable, Closure("negate", callback))

detect(host, enumerable, callback) ==
  Finish(Each(host, enumerable, Closure("detectcb", callback), Undef))

\* global.bind(callback, context)
bind(callback) == Closure("bound", callback)

reduce(host, enumerable, memo, callback) ==
  IF NativePath(host, enumerable) THEN NativeReduce(host, enumerable, bind(callback), memo)
  ELSE Finish(Each(host, enumerable, Closure("reducecb", callback), memo))

\* Array.prototype.slice.apply(enumerable, [start])
tail(enumerable, start) ==
  LET from == IF start.t = "undef" THEN 1 ELSE NumOf(start)
  IN IF NoProps(enumerable) THEN Throw(TypeError, <<>>)
     ELSE IF HasLength(enumerable)
     THEN Ret(Fresh(SubSeq(enumerable.elems, from + 1, Len(enumerable.elems))), <<>>)
     ELSE Ret(Fresh(<<>>), <<>>)

pluck(host, enumerable, key) ==
  map(host, enumerable, [t |-> "function", kind |-> "pluckcb", key |-> key])

\* callback = callback || global.enumerable.identity
OrIdentity(callback) == IF Truthy(callback) THEN callback ELSE identity

some(host, enumerable, callback) ==
  IF NativePath(host, enumerable) THEN NativeSome(host, enumerable, OrIdentity(callback))
  ELSE Finish(Each(host, enumerable, Closure("somecb", OrIdentity(callback)), Bool(FALSE)))

all(host, enumerable, callback) ==
  IF NativePath(host, enumerable) THEN NativeEvery(host, enumerable, OrIdentity(callback))
  ELSE Finish(Each(host, enumerable, Closure("allcb", OrIdentity(callback)), Bool(TRUE)))

include(host, enumerable, target) ==
  IF NativePath(host, enumerable) THEN Ret(Bool(NativeIndexOf(enumerable, target) # -1), <<>>)
  ELSE Finish(Each(host, enumerable,
                   [t |-> "function", kind |-> "includecb", target |-> target],
                   Bool(FALSE)))

(* ------------------------------ Chainer -------------------------------- *)
\* global.chainableMethods (lines 355-356)
chainableMethods ==
  {"map", "collect", "detect", "filter", "reduce", "each", "tail", "rest",
   "reject", "pluck", "any", "some", "all"}

WithResults(r, results) == [k |-> r.k, val |-> r.val, log |-> r.log, results |-> results]

\* lines 372-373: this.results = (the value method.apply returned); return this
Stored(r) ==
  IF r.k = "throw" THEN r
  ELSE [k |-> "ret", val |-> ChainerRef, log |-> r.log, results |-> r.val]

RECURSIVE Apply(_, _, _, _, _)
RECURSIVE ChainerMethod(_, _, _, _)

\* global.enumerable[name].apply(this, args); `results` is the Chainer's slot,
\* which only a call through `this` can change
Apply(name, this, host, args, results) ==
  CASE name = "each" -> WithResults(each(host, Arg(args, 1), Arg(args, 2)), results)
    [] name \in {"map", "collect"} -> WithResults(map(host, Arg(args, 1), Arg(args, 2)), results)
    [] name = "filter" -> WithResults(filter(host, Arg(args, 1), Arg(args, 2)), results)
    [] name = "detect" -> WithResults(detect(host, Arg(args, 1), Arg(args, 2)), results)
    [] name = "reduce" -> WithResults(reduce(host, Arg(args, 1), Arg(args, 2), Arg(args, 3)), results)
    [] name \in {"tail", "rest"} -> WithResults(tail(Arg(args, 1), Arg(args, 2)), results)
    [] name = "pluck" -> WithResults(pluck(host, Arg(args, 1), Arg(args, 2)), results)
    [] name \in {"any", "some"} -> WithResults(some(host, Arg(args, 1), Arg(args, 2)), results)
    [] name = "all" -> WithResults(all(host, Arg(args, 1), Arg(args, 2)), results)
    [] name = "include" -> WithResults(include(host, Arg(args, 1), Arg(args, 2)), results)
    [] name = "reject" ->
         \* return this.filter(enumerable, function() {...}, context)
         IF this = "module"
         THEN WithResults(reject(host, Arg(args, 1), Arg(args, 2)), results)
         ELSE ChainerMethod("filter", host, results,
                            <<Arg(args, 1), Closure("negate", Arg(args, 2)), Arg(args, 3)>>)

\* Chainer.prototype[methodName] (lines 369-374)
ChainerMethod(methodName, host, results, arguments) ==
  Stored(Apply(methodName, "chainer", host, <<results>> \o arguments, results))

(* ------------------------------ inputs --------------------------------- *)
ElemVals == {Num(0), Num(1), Num(2)}
SeqsUpTo(n) == UNION {[1..m -> ElemVals] : m \in 0..n}

\* the collections a run starts from; every one has identity 1
Inputs ==
  {Arr(1, s) : s \in SeqsUpTo(MaxLen)}
    \cup {ArrLike(1, s) : s \in SeqsUpTo(MaxLen)}
    \cup {Mapping(1, s, i) : s \in SeqsUpTo(MaxLen), i \in 0..1}
    \cup {Undef, Null, Num(5)}

Returns == {Outcome("ret", v) : v \in {Bool(TRUE), Bool(FALSE), Num(2), Undef}}
Throws == {Outcome("throw", v) : v \in {Break, StrObjectObject, StrA, Other}}
Nestable == {"detect", "some", "all", "include"}

\* the callbacks a direct call is tried with (Undef: no callback passed)
Callbacks ==
  {UserFn(x, o, d) : x \in ElemVals, o \in Returns \cup Throws,
                     d \in {Outcome("ret", Bool(TRUE)), Outcome("ret", Bool(FALSE))}}
    \cup {NestedFn(op) : op \in Nestable}
    \cup {Undef}
Reducers ==
  {ReducerFn(x, o) : x \in ElemVals, o \in {Outcome("ret", Undef), Outcome("throw", Break), Outcome("throw", Other)}}
Memos == {Num(0), Num(3)}
Targets == ElemVals \cup {Undef}
Starts == {Undef, Num(0), Num(2)}
PluckKeys == {Num(0), StrLength}

\* the arguments a chained call is tried with
ChainCallbacks ==
  {UserFn(Num(1), Outcome("ret", Bool(TRUE)), Outcome("ret", Bool(FALSE))),
   UserFn(Num(0), Outcome("ret", Undef), Outcome("ret", Num(2))),
   UserFn(Num(2), Outcome("throw", Other), Outcome("ret", Bool(TRUE)))}
ChainArgs(name) ==
  CASE name = "reduce" -> {<<Num(0), ReducerFn(Num(0), Outcome("ret", Undef))>>}
    [] name \in {"tail", "rest"} -> {<<>>, <<Num(2)>>}
    [] name = "pluck" -> {<<k>> : k \in PluckKeys}
    [] OTHER -> {<<cb>> : cb \in ChainCallbacks}

(* --------------------------- state machine ----------------------------- *)
VARIABLES host, results, steps, call, out
vars == <<host, results, steps, call, out>>

\* host: whether Array.prototype has the ES5 methods (forEach, map, ...)
\* results: the Chainer's current results; steps: calls made so far
\* call: the last call made; out: its completion

Completion(r) == [k |-> r.k, val |-> r.val, log |-> r.log]
CallRec(op, via, on, args) == [op |-> op, via |-> via, on |-> on, args |-> args]

\* var c = turing.enumerable.chain(enumerable)   (lines 339-341, 359-361)
Init ==
  /\ host \in BOOLEAN
  /\ results \in Inputs
  /\ steps = 0
  /\ call = CallRec("chain", "direct", results, <<>>)
  /\ out = Ret(ChainerRef, <<>>)

\* turing.enumerable[op](c.values(), args...): the call and its completion
Direct(op, args) ==
  /\ call' = CallRec(op, "direct", results, args)
  /\ out' = Completion(Apply(op, "module", host, <<results>> \o args, results))

\* the direct operations, each as the first call of a run
DoEach ==
  /\ steps = 0
  /\ \E cb \in Callbacks : Direct("each", <<cb>>)
  /\ steps' = 1
  /\ UNCHANGED <<host, results>>
DoMap ==
  /\ steps = 0
  /\ \E cb \in Callbacks : Direct("map", <<cb>>)
  /\ steps' = 1
  /\ UNCHANGED <<host, results>>
DoFilter ==
  /\ steps = 0
  /\ \E cb \in Callbacks : Direct("filter", <<cb>>)
  /\ steps' = 1
  /\ UNCHANGED <<host, results>>
DoReject ==
  /\ steps = 0
  /\ \E cb \in Callbacks : Direct("reject", <<cb>>)
  /\ steps' = 1
  /\ UNCHANGED <<host, results>>
DoDetect ==
  /\ steps = 0
  /\ \E cb \in Callbacks : Direct("detect", <<cb>>)
  /\ steps' = 1
  /\ UNCHANGED <<host, results>>
DoReduce ==
  /\ steps = 0
  /\ \E m \in Memos, cb \in Reducers : Direct("reduce", <<m, cb>>)
  /\ steps' = 1
  /\ UNCHANGED <<host, results>>
DoTail ==
  /\ steps = 0
  /\ \E st \in Starts : Direct("tail", <<st>>)
  /\ steps' = 1
  /\ UNCHANGED <<host, results>>
DoPluck ==
  /\ steps = 0
  /\ \E key \in PluckKeys : Direct("pluck", <<key>>)
  /\ steps' = 1
  /\ UNCHANGED <<host, results>>
DoSome ==
  /\ steps = 0
  /\ \E cb \in Callbacks : Direct("some", <<cb>>)
  /\ steps' = 1
  /\ UNCHANGED <<host, results>>
DoAll ==
  /\ steps = 0
  /\ \E cb \in Callbacks : Direct("all", <<cb>>)
  /\ steps' = 1
  /\ UNCHANGED <<host, results>>
DoInclude ==
  /\ steps = 0
  /\ \E target \in Targets : Direct("include", <<target>>)
  /\ steps' = 1
  /\ UNCHANGED <<host, results>>

\* the wrapper's slot and the caller's completion after a chained call r
ChainedEffect(r) == out' = Completion(r) /\ results' = r.results

\* c[name](args...)
Chained ==
  /\ steps < MaxChain
  /\ call.via = "chain" \/ steps = 0
  /\ \E name \in chainableMethods : \E args \in ChainArgs(name) :
       /\ call' = CallRec(name, "chain", results, args)
       /\ ChainedEffect(ChainerMethod(name, host, results, args))
  /\ steps' = steps + 1
  /\ UNCHANGED host

\* c.values()   (lines 363-365)
Values ==
  /\ call.via = "chain" \/ steps = 0
  /\ call.op # "values"
  /\ call' = CallRec("values", "chain", results, <<>>)
  /\ out' = Ret(results, <<>>)
  /\ UNCHANGED <<host, results, steps>>

Next ==
  \/ DoEach \/ DoMap \/ DoFilter \/ DoReject \/ DoDetect \/ DoReduce
  \/ DoTail \/ DoPluck \/ DoSome \/ DoAll \/ DoInclude
  \/ Chained \/ Values

Spec == Init /\ [][Next]_vars

(* ----------------------- vocabulary of the claims ----------------------- *)
IsDirect(op) == call.via = "direct" /\ call.op = op
Cb == Arg(call.args, 1)
IsUserCb == Callable(Cb) /\ Cb.kind = "user"
\* the values a traversal of e visits, in order
Visited(e) == IF IsContainer(e) THEN e.elems ELSE <<>>
\* the index or key passed with the i-th visited value
IndexAt(e, i) == IF e.t = "mapping" THEN Key(i) ELSE Num(i - 1)
\* what the callback of the last call did on its last invocation
LastThrow == UserOutcome(Cb, out.log[Len(out.log)].args[1])
\* the caller's callback returns (does not throw) on every value of e
ReturnsOn(f, e) == \A i \in 1..Len(Visited(e)) : UserOutcome(f, Visited(e)[i]).k = "ret"
\* positions of e whose value the predicate f accepts
Matches(f, e) == {i \in 1..Len(Visited(e)) : Truthy(UserOutcome(f, Visited(e)[i]).val)}
\* the caller's reducer returns on every value of e
ReducerReturnsOn(f, e) ==
  \A i \in 1..Len(Visited(e)) : ~(Visited(e)[i] = f.trig /\ f.out.k = "throw")
Min(S) == CHOOSE i \in S : \A j \in S : i <= j
IsPair(x) == x.t = "array" /\ Len(x.elems) = 2

\* C1: each swallows a value thrown by the callback iff it is Break itself;
\* any other thrown value propagates out of each unchanged.
C1_OnlyBreakSwallowed ==
  (IsDirect("each") /\ IsUserCb /\ out.log # <<>> /\ LastThrow.k = "throw")
    => IF LastThrow.val = Break THEN out.k = "ret"
       ELSE out.k = "throw" /\ out.val = LastThrow.val

\* C2: a chained call wrapper.name(args) on current results r leaves the
\* results equal to what enumerable.name(r, args) returns and returns the wrapper.
C2_ChainMatchesDirect ==
  (call.via = "chain" /\ call.op \in chainableMethods)
    => LET d == Apply(call.op, "module", host, <<call.on>> \o call.args, call.on)
       IN d.k = "ret" => (out.k = "ret" /\ out.val = ChainerRef /\ results = d.val)

\* C3: filter returns [key, value] pairs for a keyed mapping and bare values
\* (never pairs) for any ordered sequence, host array or not.
C3_FilterPairsOnlyForMappings ==
  (IsDirect("filter") /\ IsUserCb /\ out.k = "ret" /\ IsContainer(call.on))
    => \A i \in 1..Len(out.val.elems) :
         IF call.on.t = "mapping" THEN IsPair(out.val.elems[i])
         ELSE out.val.elems[i] \in ElemVals

\* the predicate g that returns the negation of f on the same arguments
Not(o) == IF o.k = "ret" THEN Outcome("ret", Bool(~Truthy(o.val))) ELSE o
NegationOf(f) == UserFn(f.trig, Not(f.out), Not(f.dflt))

\* C4: reject(s, f) returns what filter(s, g) returns, g the negation of f,
\* pairs included when s is a mapping.
C4_RejectIsFilterOfNegation ==
  (IsDirect("reject") /\ IsUserCb)
    => LET d == filter(host, call.on, NegationOf(Cb))
       IN out.k = d.k /\ out.val = d.val /\ Len(out.log) = Len(d.log)
C4_Witness ==
  /\ IsDirect("reject") /\ IsUserCb /\ out.k = "ret"
  /\ call.on.t = "mapping" /\ Len(call.on.elems) = 2
  /\ Len(out.val.elems) = 1 /\ IsPair(out.val.elems[1])

\* C5: detect returns the first value in traversal order that f accepts and
\* calls f on nothing after it; with no match it returns undefined after
\* calling f once per element.
C5_DetectFirstMatch ==
  (IsDirect("detect") /\ IsUserCb /\ ReturnsOn(Cb, call.on) /\ ~NoProps(call.on))
    => IF Matches(Cb, call.on) # {}
       THEN /\ out.k = "ret"
            /\ out.val = Visited(call.on)[Min(Matches(Cb, call.on))]
            /\ Len(out.log) = Min(Matches(Cb, call.on))
       ELSE /\ out.k = "ret"
            /\ out.val = Undef
            /\ Len(out.log) = Len(Visited(call.on))
C5_Witness ==
  /\ IsDirect("detect") /\ IsUserCb /\ ReturnsOn(Cb, call.on)
  /\ Len(Visited(call.on)) = 2 /\ Matches(Cb, call.on) = {1, 2}
  /\ Len(out.log) = 1 /\ out.val = Visited(call.on)[1]

\* the native result for the ordered elements of e
NativeResult(op, e, args) ==
  Apply(op, "module", TRUE, <<Arr(e.v, e.elems)>> \o args, Undef)

\* the callback of the last call returns on every element (no throw)
CallbackReturns ==
  CASE call.op = "include" -> TRUE
    [] call.op = "reduce" -> ReducerReturnsOn(call.args[2], call.on)
    [] call.op \in {"some", "all"} /\ Cb = Undef -> TRUE
    [] OTHER -> IsUserCb /\ ReturnsOn(Cb, call.on)

\* C6: on the each-based fallback path map, filter, reduce, some, all and
\* include return exactly what the native path returns for the same ordered
\* elements and the same (returning) callback; some and all return booleans
\* on both paths.
C6_FallbackEqualsNative ==
  (/\ call.via = "direct"
   /\ call.op \in {"map", "filter", "reduce", "some", "all", "include"}
   /\ HasLength(call.on)
   /\ CallbackReturns)
    => LET n == NativeResult(call.op, call.on, call.args)
       IN /\ out.k = n.k
          /\ out.val = n.val
          /\ (call.op \in {"some", "all"} /\ out.k = "ret") => out.val.t = "bool"

\* e has neither a usable numeric length nor own enumerable keys
Untraversable(e) == ~HasLength(e) /\ (e.t = "mapping" => e.elems = <<>>)

\* C7: each on a value with neither a usable length nor own enumerable keys
\* (null, undefined, a number, an empty object) calls the callback zero times
\* and returns normally.
C7_EachNoOpOnUntraversable ==
  (IsDirect("each") /\ Untraversable(call.on)) => (out.k = "ret" /\ out.log = <<>>)

\* C8: whenever each returns, on any dispatch path and whether or not Break
\* cut the traversal short, it returns the very reference it was given.
C8_EachReturnsSameReference ==
  (IsDirect("each") /\ out.k = "ret") => out.val = call.on
C8_Witness ==
  /\ IsDirect("each") /\ IsUserCb /\ out.k = "ret" /\ out.val = call.on
  /\ call.on.t = "array" /\ host /\ Len(call.on.elems) = 2
  /\ Len(out.log) = 1 /\ LastThrow = Outcome("throw", Break)

RECURSIVE FoldLeft(_, _, _)
\* the left fold of Combine over the first n visited values of e
FoldLeft(e, memo, n) ==
  IF n = 0 THEN memo
  ELSE Combine(FoldLeft(e, memo, n - 1), Visited(e)[n], IndexAt(e, n))

\* C9: reduce is a left fold: it calls f(memo, value, index, s) on the
\* elements in traversal order, each time replacing memo, and returns the
\* last memo; on an empty s it returns the initial memo and never calls f.
C9_ReduceIsLeftFold ==
  (IsDirect("reduce") /\ ~NoProps(call.on) /\ ReducerReturnsOn(call.args[2], call.on))
    => /\ out.k = "ret"
       /\ out.val = FoldLeft(call.on, call.args[1], Len(Visited(call.on)))
       /\ Len(out.log) = Len(Visited(call.on))
       /\ \A i \in 1..Len(out.log) :
            out.log[i].args = <<FoldLeft(call.on, call.args[1], i - 1),
                                Visited(call.on)[i], IndexAt(call.on, i), call.on>>
C9_Witness ==
  /\ IsDirect("reduce") /\ out.k = "ret" /\ Len(out.log) = 2
  /\ call.on.t = "arraylike" /\ call.on.elems = <<Num(1), Num(2)>>
  /\ call.args[1] = Num(3) /\ out.val = Num(1)

\* C10: Break never propagates out of a public operation to its caller, and
\* a short-circuiting operation called inside the callback of an outer
\* traversal ends only its own traversal: the outer one visits every element.
C10_BreakNeverEscapes ==
  /\ ~(out.k = "throw" /\ out.val = Break)
  /\ (call.via = "direct" /\ call.op \in {"each", "map"} /\ Callable(Cb) /\ Cb.kind = "nested"
        /\ ~NoProps(call.on))
       => (out.k = "ret" /\ Len(out.log) = Len(Visited(call.on)))

====
